---------------------------- MODULE Spec2Model ----------------------------
(***************************************************************************)
(* Model of the summarization pipeline of gutenberg-ai:                    *)
(*   app/services/utils.py  hybrid_chunking, retry_with_backoff            *)
(*   app/services/llm.py    BaseLLM.recursive_summarize, BaseLLM.summarize *)
(*   app/services/gutenberg.py  Gutenberg.get_book                         *)
(*                                                                         *)
(* A text is a sequence of characters over a four-letter alphabet: a word  *)
(* character, a sentence-final punctuation mark, a space and a newline.    *)
(* Every string operation of the code (split, strip, join, +, encode,      *)
(* sent_tokenize) is an operator on such sequences.                        *)
(***************************************************************************)
EXTENDS Integers, Sequences, FiniteSets, TLC

\* ------------------------------------------------------------------ bounds
\* longest input text of hybrid_chunking, in characters
MaxLen == 6
\* largest max_tokens given to hybrid_chunking
MaxTokens == 3
\* largest max_retries and base_delay given to retry_with_backoff
MaxRetriesBound == 4
MaxBaseDelay == 3
\* longest text recursive_summarize holds, in characters
MaxTextLen == 4
\* largest max_tokens given to recursive_summarize
MaxBudget == 2
\* longest text a Model Call returns, in characters
MaxOutLen == 2
\* longest book.text given to summarize, in characters
MaxBookLen == 3
\* calls of get_book in one run
MaxCalls == 3
\* a text given to recursive_summarize as paragraphs: how many, how long
MaxParagraphs == 3
MaxParagraphLen == 1
\* the clock of the rate limiter stops here
MaxClock == 120
\* requests the rate limiter sees
MaxRequests == 5
\* the largest value of the setting REQUEST_PER_MINUTE
MaxRequestsPerMinute == 2

\* ------------------------------------------------------------------ program constants
\* the defaults of retry_with_backoff
DefaultMaxRetries == 3
DefaultBaseDelay == 2
\* max_tokens of the per-chunk Model Call
OutputBudget == 500

\* ------------------------------------------------------------------ characters
LETTER == "a"
DOT == "."
SP == " "
NL == "\n"
Alphabet == {LETTER, DOT, SP, NL}
Whitespace == {SP, NL}

\* the separators the code joins with
BlankLine == <<NL, NL>>
Space == <<SP>>

TextsUpTo(n) == UNION {[1..k -> Alphabet] : k \in 0..n}

\* F(x) with x evaluated once: the operators below are recursive, and an
\* argument that is an expression would otherwise be evaluated at every use
With(x, F(_)) == CHOOSE result \in {F(v) : v \in {x}} : TRUE

SetMin(S) == CHOOSE x \in S : \A y \in S : x <= y
SetMax(S) == CHOOSE x \in S : \A y \in S : x >= y

\* ------------------------------------------------------------------ str methods
\* str.strip(): leading and trailing whitespace removed
StripValue(s) ==
    LET keep == {i \in 1..Len(s) : s[i] \notin Whitespace}
    IN IF keep = {} THEN <<>> ELSE SubSeq(s, SetMin(keep), SetMax(keep))

strip(s) == With(s, StripValue)

\* str.split("\n\n"): left to right, non-overlapping; "" gives [""]
RECURSIVE SplitFrom(_, _, _)
SplitFrom(s, i, start) ==
    IF i + 1 > Len(s) THEN <<SubSeq(s, start, Len(s))>>
    ELSE IF s[i] = NL /\ s[i + 1] = NL
         THEN <<SubSeq(s, start, i - 1)>> \o SplitFrom(s, i + 2, i + 2)
         ELSE SplitFrom(s, i + 1, start)

split(s) == With(s, LAMBDA v : SplitFrom(v, 1, 1))

\* sep.join(parts)
RECURSIVE join(_, _)
join(sep, parts) ==
    IF parts = <<>> THEN <<>>
    ELSE IF Len(parts) = 1 THEN parts[1]
    ELSE parts[1] \o sep \o join(sep, Tail(parts))

\* ------------------------------------------------------------------ tiktoken
\* first index at or after i whose character is not in C (Len(s)+1 if none)
RunEnd(s, i, C) ==
    CHOOSE j \in i..(Len(s) + 1) :
        /\ \A k \in i..(j - 1) : s[k] \in C
        /\ (j = Len(s) + 1 \/ s[j] \notin C)

\* The encoding of gpt-3.5-turbo (cl100k_base) first cuts the text into
\* pieces with the pattern
\*   [^\r\n\p{L}\p{N}]?\p{L}+ | ?[^\s\p{L}\p{N}]+[\r\n]*|\s*[\r\n]+|\s+(?!\S)|\s+
\* (the alternatives for contractions and digits match nothing of Alphabet)
\* and never merges across pieces. PieceEnd is the index after the piece that
\* starts at i; each piece of this alphabet is taken to be one token.
PieceEnd(s, i) ==
    LET n == Len(s)
        nextIn(C) == i + 1 <= n /\ s[i + 1] \in C
        ws == RunEnd(s, i, Whitespace)
        nls == {k \in i..(ws - 1) : s[k] = NL}
    IN IF s[i] = LETTER THEN RunEnd(s, i, {LETTER})
       ELSE IF s[i] \in {DOT, SP} /\ nextIn({LETTER})
            THEN RunEnd(s, i + 1, {LETTER})
       ELSE IF s[i] = DOT
            THEN RunEnd(s, RunEnd(s, i, {DOT}), {NL})
       ELSE IF s[i] = SP /\ nextIn({DOT})
            THEN RunEnd(s, RunEnd(s, i + 1, {DOT}), {NL})
       ELSE IF nls # {} THEN SetMax(nls) + 1
       ELSE IF ws = n + 1 THEN ws
       ELSE ws - 1

RECURSIVE EncodeFrom(_, _)
EncodeFrom(s, i) ==
    IF i > Len(s) THEN <<>>
    ELSE With(PieceEnd(s, i),
              LAMBDA e : <<SubSeq(s, i, e - 1)>> \o EncodeFrom(s, e))

\* encoding.encode(text): the tokens of the text
encode(s) == With(s, LAMBDA v : EncodeFrom(v, 1))

\* the maximal runs of non-whitespace characters of a text, in order (str.split())
RECURSIVE Words(_)
Words(s) ==
    LET t == strip(s)
        e == RunEnd(t, 1, Alphabet \ Whitespace)
    IN IF t = <<>> THEN <<>>
       ELSE <<SubSeq(t, 1, e - 1)>> \o Words(SubSeq(t, e, Len(t)))

\* ------------------------------------------------------------------ nltk
\* sent_tokenize(paragraph): a sentence ends at a punctuation mark that is
\* followed by whitespace; the whitespace between two sentences is dropped.
RECURSIVE SentencesOf(_)
SentencesOf(s) ==
    IF s = <<>> THEN <<>>
    ELSE LET ends == {i \in 1..(Len(s) - 1) : s[i] = DOT /\ s[i + 1] \in Whitespace}
         IN IF ends = {} THEN <<s>>
            ELSE LET e == SetMin(ends)
                     r == RunEnd(s, e + 1, Whitespace)
                 IN <<SubSeq(s, 1, e)>>
                        \o With(SubSeq(s, r, Len(s)), SentencesOf)

sent_tokenize(s) == With(s, SentencesOf)

\* ------------------------------------------------------------------ hybrid_chunking
\* The for loops of the code are folds over the list.
\* The loop state of hybrid_chunking. chunks holds, for each emitted chunk,
\* its text (what the code appends) and the units it was joined from.
ChunkerStart == [chunks |-> <<>>, current_chunk |-> <<>>, current_token_count |-> 0]

Emitted(units, sep) == [text |-> join(sep, units), units |-> units, sep |-> sep]

\* mutant: the new chunk starts empty, the sentence that overflowed is lost
AddSentenceDropping(st, raw, max_tokens) ==
    LET sentence == strip(raw)
        sentence_tokens == Len(encode(sentence))
    IN IF st.current_token_count + sentence_tokens > max_tokens
       THEN [chunks |-> Append(st.chunks, Emitted(st.current_chunk, Space)),
             current_chunk |-> <<>>,
             current_token_count |-> 0]
       ELSE [chunks |-> st.chunks,
             current_chunk |-> Append(st.current_chunk, sentence),
             current_token_count |-> st.current_token_count + sentence_tokens]

\* mutant: a sentence that starts a new chunk is cut to max_tokens tokens
AddSentenceTruncating(st, raw, max_tokens) ==
    LET sentence == strip(raw)
        tokens == encode(sentence)
        sentence_tokens == Len(tokens)
        kept == IF sentence_tokens > max_tokens THEN max_tokens ELSE sentence_tokens
    IN IF st.current_token_count + sentence_tokens > max_tokens
       THEN [chunks |-> Append(st.chunks, Emitted(st.current_chunk, Space)),
             current_chunk |-> <<join(<<>>, SubSeq(tokens, 1, kept))>>,
             current_token_count |-> kept]
       ELSE [chunks |-> st.chunks,
             current_chunk |-> Append(st.current_chunk, sentence),
             current_token_count |-> st.current_token_count + sentence_tokens]

\* utils.py:33-43, one sentence of an oversized paragraph
AddSentence(st, raw, max_tokens) ==
    LET sentence == strip(raw)
        sentence_tokens == Len(encode(sentence))
    IN IF st.current_token_count + sentence_tokens > max_tokens
       THEN [chunks |-> Append(st.chunks, Emitted(st.current_chunk, Space)),
             current_chunk |-> <<sentence>>,
             current_token_count |-> sentence_tokens]
       ELSE [chunks |-> st.chunks,
             current_chunk |-> Append(st.current_chunk, sentence),
             current_token_count |-> st.current_token_count + sentence_tokens]

RECURSIVE AddSentences(_, _, _)
AddSentences(st, sentences, max_tokens) ==
    IF sentences = <<>> THEN st
    ELSE With(AddSentence(st, Head(sentences), max_tokens),
              LAMBDA next : AddSentences(next, Tail(sentences), max_tokens))

\* utils.py:25-53, one paragraph
AddParagraph(st, raw, max_tokens) ==
    LET paragraph == strip(raw)
        paragraph_tokens == Len(encode(paragraph))
    IN IF paragraph_tokens > max_tokens
       THEN AddSentences(st, sent_tokenize(paragraph), max_tokens)
       ELSE IF st.current_token_count + paragraph_tokens > max_tokens
            THEN [chunks |-> Append(st.chunks, Emitted(st.current_chunk, BlankLine)),
                  current_chunk |-> <<paragraph>>,
                  current_token_count |-> paragraph_tokens]
            ELSE [chunks |-> st.chunks,
                  current_chunk |-> Append(st.current_chunk, paragraph),
                  current_token_count |-> st.current_token_count + paragraph_tokens]

RECURSIVE AddParagraphs(_, _, _)
AddParagraphs(st, paragraphs, max_tokens) ==
    IF paragraphs = <<>> THEN st
    ELSE With(AddParagraph(st, Head(paragraphs), max_tokens),
              LAMBDA next : AddParagraphs(next, Tail(paragraphs), max_tokens))

\* utils.py:55-59, the last chunk
LastChunk(st) ==
    IF st.current_chunk # <<>>
    THEN Append(st.chunks, Emitted(st.current_chunk, BlankLine))
    ELSE st.chunks

\* the emitted chunks with the units of each
ChunkRecords(text, max_tokens) ==
    With(split(text),
         LAMBDA paragraphs :
             With(AddParagraphs(ChunkerStart, paragraphs, max_tokens), LastChunk))

\* hybrid_chunking(text, max_tokens): the list of chunk texts
hybrid_chunking(text, max_tokens) ==
    With(ChunkRecords(text, max_tokens),
         LAMBDA recs : [i \in 1..Len(recs) |-> recs[i].text])

\* ------------------------------------------------------------------ state
VARIABLES
    \* hybrid_chunking called on its own
    h_pc,            \* "call" before the call, "returned" after it
    h_text,          \* argument text
    h_max_tokens,    \* argument max_tokens
    h_chunks,        \* the returned list, each chunk with its units (<<>> before the call)
    \* retry_with_backoff
    r_pc,            \* "loop" at the top of the for loop, "returned", "raised"
    max_retries,     \* argument max_retries
    base_delay,      \* argument base_delay
    attempt,         \* the loop variable
    history,         \* what func did at each invocation, in order
    delays,          \* the arguments of asyncio.sleep, in order
    outcome,         \* what retry_with_backoff returned or raised
    \* BaseLLM.recursive_summarize
    pc,              \* "SIZING", "CHUNKING", "SUMMARIZING_CHUNKS", "RECOMBINING", "DONE"
    text,            \* the local variable text
    max_tokens,      \* argument max_tokens, the target budget
    combined_chunks, \* the list combined_chunks of the current iteration
    idx,             \* position of the next combined chunk to summarize (from 1)
    summaries,       \* the list summaries of the current iteration
    call_results,    \* "returned" or "raised", for each self.call of the current iteration
    called,          \* whether self.call has been invoked since the request started
    chunked,         \* whether hybrid_chunking has been invoked since the request started
    calls,           \* invocations of self.call in the current iteration
    \* BaseLLM.summarize
    m_pc,            \* "start", "reducing", "assigned", "returned", "cancelled"
    book_summarized_text, \* the attribute book.summarized_text of the session's object
    db_summarized_text,   \* the committed column summarized_text of the row
    refresh,         \* argument refresh
    m_before,        \* book.summarized_text when summarize was called
    m_caught,        \* where the exception summarize caught came from, "none" without one
    m_result,        \* what summarize returned
    \* Gutenberg.get_book
    g_pc,            \* "ready" between two calls of get_book
    store,           \* the rows of the table books
    g_before,        \* the rows when the last call started
    g_calls,         \* calls of get_book so far
    g_last,          \* the last call: its arguments, the responses, what it did
    \* BaseLLM.analyze
    a_pc,            \* "summarizing" while analyze awaits summarize
    analysis_type,   \* argument analysis_type
    a_prompt,        \* the user prompt handed to self.call
    a_calls,         \* calls of self.call made by analyze
    a_result,        \* what analyze returned
    \* rate_limit
    clock,           \* time.time(), in seconds
    rate_limit_store,   \* per client address, the timestamps kept
    REQUEST_PER_MINUTE, \* settings.REQUEST_PER_MINUTE
    accepted,        \* per client address, the time of every request accepted so far
    l_requests,      \* requests so far
    l_last           \* the last request: its client, the time, what happened

h_vars == <<h_pc, h_text, h_max_tokens, h_chunks>>
r_vars == <<r_pc, max_retries, base_delay, attempt, history, delays, outcome>>
s_vars == <<pc, text, max_tokens, combined_chunks, idx, summaries,
            call_results, called, chunked, calls>>
m_vars == <<m_pc, book_summarized_text, db_summarized_text, refresh,
            m_before, m_caught, m_result>>
g_vars == <<g_pc, store, g_before, g_calls, g_last>>
a_vars == <<a_pc, analysis_type, a_prompt, a_calls, a_result>>
l_vars == <<clock, rate_limit_store, REQUEST_PER_MINUTE, accepted, l_requests, l_last>>
vars == <<h_vars, r_vars, s_vars, m_vars, g_vars, a_vars, l_vars>>

\* ------------------------------------------------------------------ hybrid_chunking, called
ChunkInit ==
    /\ h_pc = "call"
    /\ h_text \in TextsUpTo(MaxLen)
    /\ h_max_tokens \in 1..MaxTokens
    /\ h_chunks = <<>>

ChunkIdle ==
    /\ h_pc = "idle"
    /\ h_text = <<>>
    /\ h_max_tokens = 1
    /\ h_chunks = <<>>

CallHybridChunking ==
    /\ h_pc = "call"
    /\ h_chunks' = ChunkRecords(h_text, h_max_tokens)
    /\ h_pc' = "returned"
    /\ UNCHANGED <<h_text, h_max_tokens, r_vars, s_vars, m_vars, g_vars, a_vars, l_vars>>

\* ------------------------------------------------------------------ retry_with_backoff
\* what func returns when it succeeds
Values == {"v1", "v2"}

\* str(e) contains "429" or "rate limit" (utils.py:72), or not
ErrorKinds == {"rate_limit", "other"}

\* every caller in the repository leaves max_retries and base_delay at their
\* defaults; the arguments range over the values that allow an attempt
RetryInit ==
    /\ r_pc = "loop"
    /\ max_retries \in 1..MaxRetriesBound
    /\ base_delay \in 1..MaxBaseDelay
    /\ attempt = 0
    /\ history = <<>>
    /\ delays = <<>>
    /\ outcome = [kind |-> "none"]

RetryIdle ==
    /\ r_pc = "idle"
    /\ max_retries = DefaultMaxRetries
    /\ base_delay = DefaultBaseDelay
    /\ attempt = 0
    /\ history = <<>>
    /\ delays = <<>>
    /\ outcome = [kind |-> "none"]

\* mutant: base_delay ** attempt
RateLimitDelayPower(base, att) == base ^ att

\* the delay of the rate-limit branch (utils.py:73)
RateLimitDelay(base, att) == base * (2 ^ att)

\* mutant: the other branch sleeps as the rate-limit branch does by default
OtherDelayWithBase(att) == DefaultBaseDelay * (2 ^ att)

\* the delay of the other branch (utils.py:80)
OtherDelay(att) == 2 ^ att

\* mutant: attempt == max_retries - 2
IsFinalAttemptEarly(att, retries) == att = retries - 2

\* mutant: attempt == max_retries
IsFinalAttemptNever(att, retries) == att = retries

\* mutant: attempt <= max_retries - 1
IsFinalAttemptAlways(att, retries) == att <= retries - 1

\* whether the other branch re-raises (utils.py:78)
IsFinalAttempt(att, retries) == att = retries - 1

\* utils.py:69-70: func returns, retry_with_backoff returns its value
FuncReturns ==
    /\ r_pc = "loop"
    /\ attempt < max_retries
    /\ \E v \in Values :
        /\ history' = Append(history, [kind |-> "ok", value |-> v])
        /\ outcome' = [kind |-> "returned", value |-> v]
    /\ r_pc' = "returned"
    /\ UNCHANGED <<max_retries, base_delay, attempt, delays, h_vars, s_vars, m_vars, g_vars, a_vars, l_vars>>

\* utils.py:71-75: func raises a rate-limit error; sleep, next attempt
FuncRateLimited ==
    /\ r_pc = "loop"
    /\ attempt < max_retries
    /\ history' = Append(history, [kind |-> "rate_limit", error |-> attempt])
    /\ delays' = Append(delays, RateLimitDelay(base_delay, attempt))
    /\ attempt' = attempt + 1
    /\ UNCHANGED <<r_pc, max_retries, base_delay, outcome, h_vars, s_vars, m_vars, g_vars, a_vars, l_vars>>

\* utils.py:76-80: func raises another error; re-raise it on the final
\* attempt, otherwise sleep, next attempt
FuncFails ==
    /\ r_pc = "loop"
    /\ attempt < max_retries
    /\ history' = Append(history, [kind |-> "other", error |-> attempt])
    /\ IF IsFinalAttempt(attempt, max_retries)
       THEN /\ outcome' = [kind |-> "raised_original", error |-> attempt]
            /\ r_pc' = "raised"
            /\ UNCHANGED <<attempt, delays>>
       ELSE /\ delays' = Append(delays, OtherDelay(attempt))
            /\ attempt' = attempt + 1
            /\ UNCHANGED <<r_pc, outcome>>
    /\ UNCHANGED <<max_retries, base_delay, h_vars, s_vars, m_vars, g_vars, a_vars, l_vars>>

\* utils.py:81: the loop is over, raise the generic exception
MaxRetriesExceeded ==
    /\ r_pc = "loop"
    /\ attempt >= max_retries
    /\ outcome' = [kind |-> "raised_max_retries"]
    /\ r_pc' = "raised"
    /\ UNCHANGED <<max_retries, base_delay, attempt, history, delays, h_vars, s_vars, m_vars, g_vars, a_vars, l_vars>>

\* ------------------------------------------------------------------ recursive_summarize
\* mutant: >= for >
ExceedsBudgetOrEqual(t, budget) == Len(encode(t)) >= budget

\* mutant: words counted for tokens, len(text.split())
ExceedsBudgetWords(t, budget) == Len(Words(t)) > budget

\* the test of the while loop (llm.py:56)
ExceedsBudget(t, budget) == Len(encode(t)) > budget

\* llm.py:65-66, before the re-packing loop. parts are the chunks a combined
\* chunk was built from.
CombineStart == [combined_chunks |-> <<>>, temp_chunk |-> <<>>, temp_parts |-> <<>>]

Combined(temp_chunk, parts) == [text |-> strip(temp_chunk), parts |-> parts]

\* llm.py:68-72, one chunk of the re-packing loop
CombineChunk(st, chunk, budget) ==
    IF Len(encode(st.temp_chunk \o chunk)) <= budget
    THEN [combined_chunks |-> st.combined_chunks,
          temp_chunk |-> st.temp_chunk \o BlankLine \o chunk,
          temp_parts |-> Append(st.temp_parts, chunk)]
    ELSE [combined_chunks |->
              Append(st.combined_chunks, Combined(st.temp_chunk, st.temp_parts)),
          temp_chunk |-> chunk,
          temp_parts |-> <<chunk>>]

RECURSIVE CombineChunks(_, _, _)
CombineChunks(st, chunks, budget) ==
    IF chunks = <<>> THEN st
    ELSE With(CombineChunk(st, Head(chunks), budget),
              LAMBDA next : CombineChunks(next, Tail(chunks), budget))

\* llm.py:73-74, the last combined chunk
LastCombined(st) ==
    IF st.temp_chunk # <<>>
    THEN Append(st.combined_chunks, Combined(st.temp_chunk, st.temp_parts))
    ELSE st.combined_chunks

\* llm.py:65-74
Combine(chunks, budget) ==
    With(chunks,
         LAMBDA cs : With(CombineChunks(CombineStart, cs, budget), LastCombined))

\* what self.call returns when it succeeds: OpenAI.call and GROQ.call strip
\* the completion, which the remote model keeps within max_tokens=500
ModelOutputs ==
    {o \in TextsUpTo(MaxOutLen) : strip(o) = o /\ Len(encode(o)) <= OutputBudget}

\* mutant: the summaries are joined last one first
RecombinedReversed(sums) ==
    join(BlankLine, [i \in 1..Len(sums) |-> sums[Len(sums) + 1 - i]])

\* llm.py:90
Recombined(sums) == join(BlankLine, sums)

SummInit ==
    /\ pc = "SIZING"
    /\ text \in TextsUpTo(MaxTextLen)
    /\ max_tokens \in 1..MaxBudget
    /\ combined_chunks = <<>>
    /\ idx = 1
    /\ summaries = <<>>
    /\ call_results = <<>>
    /\ called = FALSE
    /\ chunked = FALSE
    /\ calls = 0

\* llm.py:56 and 92: the while test; return text when it fails
Sizing ==
    /\ pc = "SIZING"
    /\ pc' = IF ExceedsBudget(text, max_tokens) THEN "CHUNKING" ELSE "DONE"
    /\ UNCHANGED <<text, max_tokens, combined_chunks, idx, summaries, call_results,
                   called, chunked, calls, h_vars, r_vars, m_vars, g_vars, a_vars, l_vars>>

\* llm.py:60-79: chunk the text, re-pack the chunks, start the summaries
Chunking ==
    /\ pc = "CHUNKING"
    /\ combined_chunks' = Combine(hybrid_chunking(text, max_tokens), max_tokens)
    /\ idx' = 1
    /\ summaries' = <<>>
    /\ call_results' = <<>>
    /\ calls' = 0
    /\ chunked' = TRUE
    /\ pc' = IF combined_chunks' = <<>> THEN "RECOMBINING" ELSE "SUMMARIZING_CHUNKS"
    /\ UNCHANGED <<text, max_tokens, called, h_vars, r_vars, m_vars, g_vars, a_vars, l_vars>>

\* mutant: the loop stops one combined chunk early
IsLastChunkEarly(i, chunks) == i >= Len(chunks) - 1

\* llm.py:79: the for loop ends with the last combined chunk
IsLastChunk(i, chunks) == i = Len(chunks)

\* mutant: the chunk stands in for the summary that failed
FailedSummaryEcho(chunk) == chunk.text

\* llm.py:85-87: what the except branch appends for a chunk
FailedSummary(chunk) == <<>>

\* the candidate text stays within MaxTextLen whatever the later calls do
FitsModel(sums, remaining) ==
    Len(Recombined(sums)) + Len(BlankLine) * remaining <= MaxTextLen

\* llm.py:83-84: self.call returns a summary
CallReturns ==
    /\ pc = "SUMMARIZING_CHUNKS"
    /\ idx <= Len(combined_chunks)
    /\ \E o \in ModelOutputs :
        /\ FitsModel(Append(summaries, o), Len(combined_chunks) - idx)
        /\ summaries' = Append(summaries, o)
    /\ call_results' = Append(call_results, "returned")
    /\ idx' = idx + 1
    /\ calls' = calls + 1
    /\ called' = TRUE
    /\ pc' = IF IsLastChunk(idx, combined_chunks)
             THEN "RECOMBINING" ELSE "SUMMARIZING_CHUNKS"
    /\ UNCHANGED <<text, max_tokens, combined_chunks, chunked, h_vars, r_vars, m_vars, g_vars, a_vars, l_vars>>

\* llm.py:85-87: self.call raises; the summary is ""
CallRaises ==
    /\ pc = "SUMMARIZING_CHUNKS"
    /\ idx <= Len(combined_chunks)
    /\ summaries' = Append(summaries, FailedSummary(combined_chunks[idx]))
    /\ call_results' = Append(call_results, "raised")
    /\ idx' = idx + 1
    /\ calls' = calls + 1
    /\ called' = TRUE
    /\ pc' = IF IsLastChunk(idx, combined_chunks)
             THEN "RECOMBINING" ELSE "SUMMARIZING_CHUNKS"
    /\ UNCHANGED <<text, max_tokens, combined_chunks, chunked, h_vars, r_vars, m_vars, g_vars, a_vars, l_vars>>

\* llm.py:90: the summaries become the text
Recombine ==
    /\ pc = "RECOMBINING"
    /\ text' = Recombined(summaries)
    /\ pc' = "SIZING"
    /\ UNCHANGED <<max_tokens, combined_chunks, idx, summaries, call_results,
                   called, chunked, calls, h_vars, r_vars, m_vars, g_vars, a_vars, l_vars>>

SummIdle ==
    /\ pc = "idle"
    /\ text = <<>>
    /\ max_tokens = 1
    /\ combined_chunks = <<>>
    /\ idx = 1
    /\ summaries = <<>>
    /\ call_results = <<>>
    /\ called = FALSE
    /\ chunked = FALSE
    /\ calls = 0

\* ------------------------------------------------------------------ BaseLLM.summarize
\* Column summarized_text is NULL until a summary is stored
NoneText == <<"None">>

\* not book.summarized_text (llm.py:105)
Falsy(v) == v = NoneText \/ v = <<>>

SummarizeInit ==
    /\ m_pc = "start"
    /\ book_summarized_text \in {NoneText, <<LETTER>>}
    /\ db_summarized_text = book_summarized_text
    /\ refresh \in BOOLEAN
    /\ m_before = book_summarized_text
    /\ m_caught = "none"
    /\ m_result = [kind |-> "none"]

SummarizeIdle ==
    /\ m_pc = "idle"
    /\ book_summarized_text = NoneText
    /\ db_summarized_text = NoneText
    /\ refresh = FALSE
    /\ m_before = NoneText
    /\ m_caught = "none"
    /\ m_result = [kind |-> "none"]

\* llm.py:105
MustSummarize(r, summarized) == r \/ Falsy(summarized)

\* llm.py:105 and 117: the stored summary is returned
SummarizeCached ==
    /\ m_pc = "start"
    /\ ~MustSummarize(refresh, book_summarized_text)
    /\ m_result' = [kind |-> "returned", value |-> book_summarized_text]
    /\ m_pc' = "returned"
    /\ UNCHANGED <<book_summarized_text, db_summarized_text, refresh,
                   m_before, m_caught, h_vars, r_vars, s_vars, g_vars, a_vars, l_vars>>

\* llm.py:105-110: recursive_summarize is called with book.text, any text of
\* at most MaxBookLen characters. The budget
\* of llm.py:109 is far above every text of the model; the model takes the
\* budgets its texts can exceed.
SummarizeStart ==
    /\ m_pc = "start"
    /\ MustSummarize(refresh, book_summarized_text)
    /\ m_pc' = "reducing"
    /\ pc' = "SIZING"
    /\ text' \in TextsUpTo(MaxBookLen)
    /\ \E budget \in 1..MaxBudget : max_tokens' = budget
    /\ UNCHANGED <<combined_chunks, idx, summaries, call_results, called, chunked,
                   calls, book_summarized_text, db_summarized_text,
                   refresh, m_before, m_caught, m_result, h_vars, r_vars, g_vars, a_vars, l_vars>>

\* llm.py:113-115: recursive_summarize raises outside its own try (encode of
\* llm.py:56 on a text it refuses, sent_tokenize of utils.py:29 without its
\* data); summarize prints and returns ""
ReductionRaises ==
    /\ m_pc = "reducing"
    /\ pc \in {"SIZING", "CHUNKING"}
    /\ pc' = "raised"
    /\ m_caught' = "reduction"
    /\ m_result' = [kind |-> "returned", value |-> <<>>]
    /\ m_pc' = "returned"
    /\ UNCHANGED <<text, max_tokens, combined_chunks, idx, summaries, call_results,
                   called, chunked, calls, book_summarized_text,
                   db_summarized_text, refresh, m_before, h_vars, r_vars, g_vars, a_vars, l_vars>>

\* llm.py:108-111: recursive_summarize returned, the attribute is assigned
SummarizeAssign ==
    /\ m_pc = "reducing"
    /\ pc = "DONE"
    /\ book_summarized_text' = text
    /\ m_pc' = "assigned"
    /\ UNCHANGED <<db_summarized_text, refresh, m_before, m_caught,
                   m_result, h_vars, r_vars, s_vars, g_vars, a_vars, l_vars>>

\* llm.py:112 and 117: the commit succeeds, the summary is returned
CommitReturns ==
    /\ m_pc = "assigned"
    /\ db_summarized_text' = book_summarized_text
    /\ m_result' = [kind |-> "returned", value |-> book_summarized_text]
    /\ m_pc' = "returned"
    /\ UNCHANGED <<book_summarized_text, refresh, m_before, m_caught,
                   h_vars, r_vars, s_vars, g_vars, a_vars, l_vars>>

\* llm.py:112-115: the commit raises; summarize prints and returns ""
CommitRaises ==
    /\ m_pc = "assigned"
    /\ m_caught' = "commit"
    /\ m_result' = [kind |-> "returned", value |-> <<>>]
    /\ m_pc' = "returned"
    /\ UNCHANGED <<book_summarized_text, db_summarized_text, refresh,
                   m_before, h_vars, r_vars, s_vars, g_vars, a_vars, l_vars>>

\* mutant: a cancelled reduction leaves what it has summarized so far in the
\* book and in the database
CancelCallPersisting ==
    /\ m_pc = "reducing"
    /\ pc = "SUMMARIZING_CHUNKS"
    /\ idx <= Len(combined_chunks)
    /\ pc' = "cancelled"
    /\ m_pc' = "cancelled"
    /\ m_result' = [kind |-> "cancelled"]
    /\ book_summarized_text' = Recombined(summaries)
    /\ db_summarized_text' = Recombined(summaries)
    /\ UNCHANGED <<text, max_tokens, combined_chunks, idx, summaries, call_results,
                   called, chunked, calls, refresh, m_before, m_caught,
                   h_vars, r_vars, g_vars, a_vars, l_vars>>

\* The task is cancelled while it awaits self.call (llm.py:83).
\* asyncio.CancelledError is no Exception: neither llm.py:85 nor llm.py:113
\* catches it, and it leaves summarize.
CancelCall ==
    /\ m_pc = "reducing"
    /\ pc = "SUMMARIZING_CHUNKS"
    /\ idx <= Len(combined_chunks)
    /\ pc' = "cancelled"
    /\ m_pc' = "cancelled"
    /\ m_result' = [kind |-> "cancelled"]
    /\ UNCHANGED <<text, max_tokens, combined_chunks, idx, summaries, call_results,
                   called, chunked, calls, book_summarized_text,
                   db_summarized_text, refresh, m_before, m_caught,
                   h_vars, r_vars, g_vars, a_vars, l_vars>>

\* The task is cancelled while it awaits the commit (llm.py:112): the
\* database has committed or has not
CancelCommit ==
    /\ m_pc = "assigned"
    /\ db_summarized_text' \in {db_summarized_text, book_summarized_text}
    /\ m_pc' = "cancelled"
    /\ m_result' = [kind |-> "cancelled"]
    /\ UNCHANGED <<book_summarized_text, refresh, m_before, m_caught,
                   h_vars, r_vars, s_vars, g_vars, a_vars, l_vars>>

\* ------------------------------------------------------------------ Gutenberg.get_book
BookIds == {"b1", "b2"}

\* status_code of the response for the text
StatusCodes == {200, 404}

\* metadata["title"]: None when the RDF response is not 200 or has no title
NoTitle == "None"
Titles == {"title", NoTitle}

\* the raw text of the response: whether it holds the start and the end
\* marker parse looks for
RawTexts == [start_marker : BOOLEAN, end_marker : BOOLEAN]

\* gutenberg.py:35: title.lower() with title None raises AttributeError
ParseRaises(title, raw) == raw.start_marker /\ title = NoTitle

\* parse (gutenberg.py:13-56): the raw text when a marker is missing, the
\* main text between the markers otherwise
parse(title, raw) ==
    IF raw.start_marker /\ raw.end_marker THEN "main text" ELSE "raw text"

\* fetch_book_db (gutenberg.py:143-146)
fetch_book_db(rows, book_id) == {r \in rows : r.book_id = book_id}

\* save_book_to_db (gutenberg.py:148-161): the row that is added
NewBook(rows, book_id, book_text_, title) ==
    [id |-> Cardinality(rows) + 1, book_id |-> book_id, text |-> book_text_,
     title |-> title]

GetBookInit ==
    /\ g_pc = "ready"
    /\ store = {}
    /\ g_before = {}
    /\ g_calls = 0
    /\ g_last = [kind |-> "none"]

GetBookIdle ==
    /\ g_pc = "idle"
    /\ store = {}
    /\ g_before = {}
    /\ g_calls = 0
    /\ g_last = [kind |-> "none"]

\* gutenberg.py:68-71: the row is in the table
GetBookFromDb ==
    /\ g_pc = "ready"
    /\ g_calls < MaxCalls
    /\ \E b \in BookIds :
        /\ fetch_book_db(store, b) # {}
        /\ g_last' = [kind |-> "returned", book_id |-> b, fetched |-> FALSE,
                      status |-> 0, result |-> fetch_book_db(store, b)]
    /\ g_before' = store
    /\ g_calls' = g_calls + 1
    /\ UNCHANGED <<g_pc, store, h_vars, r_vars, s_vars, m_vars, a_vars, l_vars>>

\* gutenberg.py:72-85: no row; the text is fetched, the status is 200, the
\* text is parsed, the row is saved and returned
GetBookFromApi ==
    /\ g_pc = "ready"
    /\ g_calls < MaxCalls
    /\ \E b \in BookIds, title \in Titles, raw \in RawTexts :
        /\ fetch_book_db(store, b) = {}
        /\ ~ParseRaises(title, raw)
        /\ store' = store \cup {NewBook(store, b, parse(title, raw), title)}
        /\ g_last' = [kind |-> "returned", book_id |-> b, fetched |-> TRUE,
                      status |-> 200,
                      result |-> {NewBook(store, b, parse(title, raw), title)}]
    /\ g_before' = store
    /\ g_calls' = g_calls + 1
    /\ UNCHANGED <<g_pc, h_vars, r_vars, s_vars, m_vars, a_vars, l_vars>>

\* gutenberg.py:72-82: no row; the text is fetched, the status is 200, parse
\* raises and so does get_book
GetBookParseRaises ==
    /\ g_pc = "ready"
    /\ g_calls < MaxCalls
    /\ \E b \in BookIds, title \in Titles, raw \in RawTexts :
        /\ fetch_book_db(store, b) = {}
        /\ ParseRaises(title, raw)
        /\ g_last' = [kind |-> "raised", book_id |-> b, fetched |-> TRUE,
                      status |-> 200, result |-> {}]
    /\ g_before' = store
    /\ g_calls' = g_calls + 1
    /\ UNCHANGED <<g_pc, store, h_vars, r_vars, s_vars, m_vars, a_vars, l_vars>>

\* gutenberg.py:72-80 and 86-87: no row; the status is not 200, None is returned
GetBookNotFound ==
    /\ g_pc = "ready"
    /\ g_calls < MaxCalls
    /\ \E b \in BookIds, status \in StatusCodes \ {200} :
        /\ fetch_book_db(store, b) = {}
        /\ g_last' = [kind |-> "returned", book_id |-> b, fetched |-> TRUE,
                      status |-> status, result |-> {}]
    /\ g_before' = store
    /\ g_calls' = g_calls + 1
    /\ UNCHANGED <<g_pc, store, h_vars, r_vars, s_vars, m_vars, a_vars, l_vars>>

\* ------------------------------------------------------------------ BaseLLM.analyze
\* "custom" is a type analyze has no branch for
AnalysisTypes == {"summary", "sentiment", "key_characters", "custom"}

\* what self.call answers to the analysis prompt
AnalysisOutputs == {<<LETTER>>}

InstructionAlwaysGeneric(type) == "Analyze the following text:"

\* llm.py:130-141: the sentence that opens the user prompt
Instruction(type) ==
    CASE type = "summary" -> "Provide a concise summary of the following text:"
      [] type = "sentiment" -> "Analyze the sentiment of the following text:"
      [] type = "key_characters" -> "Identify the key characters in the following text:"
      [] OTHER -> "Analyze the following text:"

\* llm.py:131-141: the f-string puts a blank line and the summarized text after
\* the instruction
user_prompt(type, summarized_text) ==
    [instruction |-> Instruction(type), separator |-> BlankLine,
     text |-> summarized_text]

\* llm.py:122-123: analyze starts by calling summarize(book), refresh left False
AnalyzeInit ==
    /\ SummarizeInit
    /\ refresh = FALSE
    /\ a_pc = "summarizing"
    /\ analysis_type \in AnalysisTypes
    /\ a_prompt = [instruction |-> "none"]
    /\ a_calls = 0
    /\ a_result = [kind |-> "none"]

AnalyzeIdle ==
    /\ a_pc = "idle"
    /\ analysis_type = "none"
    /\ a_prompt = [instruction |-> "none"]
    /\ a_calls = 0
    /\ a_result = [kind |-> "none"]

\* llm.py:123-143: summarize returned, the prompt is built and self.call answers
AnalyzeCallReturns ==
    /\ a_pc = "summarizing"
    /\ m_pc = "returned"
    /\ a_prompt' = user_prompt(analysis_type, m_result.value)
    /\ a_calls' = a_calls + 1
    /\ \E out \in AnalysisOutputs : a_result' = [kind |-> "returned", value |-> out]
    /\ a_pc' = "returned"
    /\ UNCHANGED <<analysis_type, h_vars, r_vars, s_vars, m_vars, g_vars, l_vars>>

\* llm.py:143: what self.call raises leaves analyze
AnalyzeCallRaises ==
    /\ a_pc = "summarizing"
    /\ m_pc = "returned"
    /\ a_prompt' = user_prompt(analysis_type, m_result.value)
    /\ a_calls' = a_calls + 1
    /\ a_result' = [kind |-> "raised"]
    /\ a_pc' = "raised"
    /\ UNCHANGED <<analysis_type, h_vars, r_vars, s_vars, m_vars, g_vars, l_vars>>

\* llm.py:123: a cancellation that left summarize leaves analyze as well
AnalyzeCancelled ==
    /\ a_pc = "summarizing"
    /\ m_pc = "cancelled"
    /\ a_result' = [kind |-> "cancelled"]
    /\ a_pc' = "cancelled"
    /\ UNCHANGED <<analysis_type, a_prompt, a_calls, h_vars, r_vars, s_vars,
                   m_vars, g_vars, l_vars>>

\* ------------------------------------------------------------------ rate_limit
\* the client addresses that send requests
Clients == {"c1", "c2"}

\* main.py:53: the age, in seconds, at which a timestamp is dropped
Window == 60

\* the time that passes between two requests
TimeSteps == {30, 59, 60}

FreshOneSecondShort(now, req_time) == now - req_time < Window - 1

\* main.py:53
Fresh(now, req_time) == now - req_time < Window

\* main.py:52-54
Pruned(times, now) == SelectSeq(times, LAMBDA req_time : Fresh(now, req_time))

\* main.py:57
LimitReached(times, limit) == Len(times) >= limit

\* main.py:43: the store is empty when the process starts; the setting comes
\* from the environment
RateLimitInit ==
    /\ clock = 0
    /\ rate_limit_store = [c \in Clients |-> <<>>]
    /\ REQUEST_PER_MINUTE \in 1..MaxRequestsPerMinute
    /\ accepted = [c \in Clients |-> <<>>]
    /\ l_requests = 0
    /\ l_last = [kind |-> "none"]

RateLimitIdle ==
    /\ clock = 0
    /\ rate_limit_store = [c \in Clients |-> <<>>]
    /\ REQUEST_PER_MINUTE = 10
    /\ accepted = [c \in Clients |-> <<>>]
    /\ l_requests = 0
    /\ l_last = [kind |-> "none"]

\* time passes
Tick ==
    /\ \E dt \in TimeSteps :
        /\ clock + dt <= MaxClock
        /\ clock' = clock + dt
    /\ UNCHANGED <<rate_limit_store, REQUEST_PER_MINUTE, accepted, l_requests,
                   l_last, h_vars, r_vars, s_vars, m_vars, g_vars, a_vars>>

\* main.py:46-62: the request is let through
RateLimitAccepts ==
    /\ l_requests < MaxRequests
    /\ \E client_ip \in Clients :
        LET now == clock
            kept == Pruned(rate_limit_store[client_ip], now)
        IN  /\ ~LimitReached(kept, REQUEST_PER_MINUTE)
            /\ rate_limit_store' =
                   [rate_limit_store EXCEPT ![client_ip] = Append(kept, now)]
            /\ accepted' = [accepted EXCEPT ![client_ip] = Append(@, now)]
            /\ l_last' = [kind |-> "accepted", client_ip |-> client_ip, now |-> now]
    /\ l_requests' = l_requests + 1
    /\ UNCHANGED <<clock, REQUEST_PER_MINUTE, h_vars, r_vars, s_vars, m_vars,
                   g_vars, a_vars>>

\* main.py:46-58: the request is answered with status 429
RateLimitRejects ==
    /\ l_requests < MaxRequests
    /\ \E client_ip \in Clients :
        LET now == clock
            kept == Pruned(rate_limit_store[client_ip], now)
        IN  /\ LimitReached(kept, REQUEST_PER_MINUTE)
            /\ rate_limit_store' = [rate_limit_store EXCEPT ![client_ip] = kept]
            /\ l_last' = [kind |-> "rejected", client_ip |-> client_ip, now |-> now]
    /\ l_requests' = l_requests + 1
    /\ UNCHANGED <<clock, REQUEST_PER_MINUTE, accepted, h_vars, r_vars, s_vars,
                   m_vars, g_vars, a_vars>>


\* ------------------------------------------------------------------ specifications
\* one request of recursive_summarize
Init == SummInit /\ ChunkIdle /\ RetryIdle /\ SummarizeIdle /\ GetBookIdle /\ AnalyzeIdle
    /\ RateLimitIdle
Next == Sizing \/ Chunking \/ CallReturns \/ CallRaises \/ Recombine
Spec == Init /\ [][Next]_vars

\* the coroutine is not abandoned: a step that can be taken is taken
FairSpec == Spec /\ WF_vars(Next)

\* one call of hybrid_chunking
ChunkSpecInit == ChunkInit /\ RetryIdle /\ SummIdle /\ SummarizeIdle /\ GetBookIdle /\ AnalyzeIdle
    /\ RateLimitIdle
ChunkSpecNext == CallHybridChunking
ChunkSpec == ChunkSpecInit /\ [][ChunkSpecNext]_vars

\* one call of retry_with_backoff
RetrySpecInit == RetryInit /\ ChunkIdle /\ SummIdle /\ SummarizeIdle /\ GetBookIdle /\ AnalyzeIdle
    /\ RateLimitIdle
RetrySpecNext == FuncReturns \/ FuncRateLimited \/ FuncFails \/ MaxRetriesExceeded
RetrySpec == RetrySpecInit /\ [][RetrySpecNext]_vars

\* one request of recursive_summarize on a text of short paragraphs
Paragraphs ==
    {p \in TextsUpTo(MaxParagraphLen) : p # <<>> /\ \A i \in 1..Len(p) : p[i] \notin Whitespace}
ParagraphTexts ==
    {join(BlankLine, ps) : ps \in UNION {[1..k -> Paragraphs] : k \in 0..MaxParagraphs}}
RepackInit ==
    /\ pc = "SIZING"
    /\ text \in ParagraphTexts
    /\ max_tokens \in 1..MaxBudget
    /\ combined_chunks = <<>>
    /\ idx = 1
    /\ summaries = <<>>
    /\ call_results = <<>>
    /\ called = FALSE
    /\ chunked = FALSE
    /\ calls = 0
RepackSpecInit == RepackInit /\ ChunkIdle /\ RetryIdle /\ SummarizeIdle /\ GetBookIdle /\ AnalyzeIdle
    /\ RateLimitIdle
RepackSpec == RepackSpecInit /\ [][Next]_vars

\* one call of summarize, with the reduction it runs
SummarizeSpecInit == SummarizeInit /\ SummIdle /\ ChunkIdle /\ RetryIdle /\ GetBookIdle /\ AnalyzeIdle
    /\ RateLimitIdle
SummarizeSpecNext ==
    \/ SummarizeCached \/ SummarizeStart
    \/ Sizing \/ Chunking \/ CallReturns \/ CallRaises \/ Recombine
    \/ ReductionRaises \/ SummarizeAssign \/ CommitReturns \/ CommitRaises
    \/ CancelCall \/ CancelCommit
SummarizeSpec == SummarizeSpecInit /\ [][SummarizeSpecNext]_vars

\* calls of get_book, one after the other
GetBookSpecInit == GetBookInit /\ ChunkIdle /\ RetryIdle /\ SummIdle /\ SummarizeIdle /\ AnalyzeIdle
    /\ RateLimitIdle
GetBookSpecNext ==
    GetBookFromDb \/ GetBookFromApi \/ GetBookParseRaises \/ GetBookNotFound
GetBookSpec == GetBookSpecInit /\ [][GetBookSpecNext]_vars

\* one call of analyze, with the summarize it runs
AnalyzeSpecInit == AnalyzeInit /\ SummIdle /\ ChunkIdle /\ RetryIdle /\ GetBookIdle
    /\ RateLimitIdle
AnalyzeSpecNext ==
    \/ SummarizeSpecNext
    \/ AnalyzeCallReturns \/ AnalyzeCallRaises \/ AnalyzeCancelled
AnalyzeSpec == AnalyzeSpecInit /\ [][AnalyzeSpecNext]_vars

\* the requests one process sees, time passing between them
RateLimitSpecInit == RateLimitInit /\ SummIdle /\ ChunkIdle /\ RetryIdle
    /\ SummarizeIdle /\ GetBookIdle /\ AnalyzeIdle
RateLimitSpecNext == Tick \/ RateLimitAccepts \/ RateLimitRejects
RateLimitSpec == RateLimitSpecInit /\ [][RateLimitSpecNext]_vars

\* ------------------------------------------------------------------ claims
AllKinds(kinds) == \A i \in 1..Len(history) : history[i].kind \in kinds

\* C1: a text whose cost is within the budget is returned unchanged, with no
\* Model Call and no chunking: from the first sizing of such a text the only
\* step is to DONE, and it leaves the text as it was
C1_WithinBudgetReturnedUnchanged ==
    [][(pc = "SIZING" /\ ~chunked /\ Len(encode(text)) <= max_tokens)
          => (pc' = "DONE" /\ text' = text /\ ~called' /\ ~chunked')]_vars

C1_Witness ==
    pc = "DONE" /\ ~chunked /\ ~called /\ Len(encode(text)) = max_tokens

\* C2: every request reaches DONE, whatever the Model Caller does
C2_Terminates == <>(pc = "DONE")

\* C3: the text recursive_summarize returns costs at most the target budget
C3_ResultWithinBudget ==
    pc = "DONE" => Len(encode(text)) <= max_tokens

C3_Witness ==
    /\ pc = "DONE"
    /\ called
    /\ Len(combined_chunks) >= 2
    /\ \E i \in 1..Len(summaries) : summaries[i] # <<>>

\* C4: every chunk of a non-empty text costs at most max_tokens, separators
\* included, unless it is one single sentence that alone exceeds max_tokens
C4_ChunksWithinBudget ==
    (h_pc = "returned" /\ h_text # <<>>) =>
        \A i \in 1..Len(h_chunks) :
            \/ Len(encode(h_chunks[i].text)) <= h_max_tokens
            \/ /\ Len(h_chunks[i].units) = 1
               /\ Len(encode(h_chunks[i].units[1])) > h_max_tokens

\* the packable units of a text: each paragraph that fits, each sentence of a
\* paragraph that does not
RECURSIVE UnitsOf(_, _)
UnitsOf(paragraphs, budget) ==
    IF paragraphs = <<>> THEN <<>>
    ELSE LET p == strip(Head(paragraphs))
             sentences == sent_tokenize(p)
         IN (IF Len(encode(p)) > budget
             THEN [i \in 1..Len(sentences) |-> strip(sentences[i])]
             ELSE <<p>>) \o UnitsOf(Tail(paragraphs), budget)

RECURSIVE FlattenUnits(_)
FlattenUnits(recs) ==
    IF recs = <<>> THEN <<>> ELSE Head(recs).units \o FlattenUnits(Tail(recs))

\* C5: the chunks, read in order, hold every packable unit of the text exactly
\* once and in source order, and their texts hold the words of the input in
\* order (the input up to whitespace)
C5_UnitsPreserved ==
    h_pc = "returned" =>
        /\ FlattenUnits(h_chunks) = UnitsOf(split(h_text), h_max_tokens)
        /\ Words(join(Space, [i \in 1..Len(h_chunks) |-> h_chunks[i].text]))
               = Words(h_text)

C5_Witness ==
    /\ h_pc = "returned"
    /\ Len(h_chunks) >= 2
    /\ \E i \in 1..Len(h_chunks) : Len(h_chunks[i].units) >= 2
    /\ \E i \in 1..Len(h_chunks) : h_chunks[i].sep = Space /\ h_chunks[i].units # <<>>
    /\ Len(split(h_text)) >= 2

\* C6: the empty text gives no chunk
C6_EmptyTextNoChunks ==
    (h_pc = "returned" /\ h_text = <<>>) => h_chunks = <<>>

\* C7: when func fails on its first k invocations and max_retries >= k+1, func
\* is invoked once more; when that invocation succeeds its value is returned
\* and func is not invoked again
C7_ReturnsAfterKFailures ==
    /\ (Len(history) < max_retries /\ AllKinds(ErrorKinds))
           => (r_pc = "loop" /\ attempt = Len(history))
    /\ \A i \in 1..Len(history) :
           history[i].kind = "ok" =>
               /\ i = Len(history)
               /\ r_pc = "returned"
               /\ outcome = [kind |-> "returned", value |-> history[i].value]

C7_Witness ==
    /\ r_pc = "returned"
    /\ Len(history) = max_retries
    /\ \E i, j \in 1..Len(history) :
           history[i].kind = "rate_limit" /\ history[j].kind = "other"

\* C8: when every invocation fails with an error that is no rate-limit
\* signal, func is invoked max_retries times and the error of the last
\* invocation is raised
C8_OriginalErrorAfterMaxRetries ==
    (history # <<>> /\ AllKinds({"other"})) =>
        IF Len(history) < max_retries
        THEN r_pc = "loop"
        ELSE /\ Len(history) = max_retries
             /\ r_pc = "raised"
             /\ outcome = [kind |-> "raised_original", error |-> max_retries - 1]

C8_Witness ==
    /\ r_pc = "raised"
    /\ max_retries >= DefaultMaxRetries
    /\ AllKinds({"other"})
    /\ outcome.kind = "raised_original"

\* C9: the sleep after a rate-limit failure of attempt i is base_delay * 2^i;
\* with the defaults, a func that is always rate limited is invoked 3 times
\* and the sleeps are 2, 4, 8
C9_RateLimitDelays ==
    /\ \A i \in 1..Len(history) :
           history[i].kind = "rate_limit" =>
               (i <= Len(delays) /\ delays[i] = base_delay * (2 ^ (i - 1)))
    /\ (/\ max_retries = DefaultMaxRetries
        /\ base_delay = DefaultBaseDelay
        /\ r_pc = "raised"
        /\ AllKinds({"rate_limit"}))
           => (Len(history) = 3 /\ delays = <<2, 4, 8>>)

C9_Witness ==
    /\ max_retries = DefaultMaxRetries
    /\ base_delay = DefaultBaseDelay
    /\ r_pc = "raised"
    /\ AllKinds({"rate_limit"})
    /\ Len(delays) = 3

\* C10: when all max_retries invocations failed, the generic failure is raised
\* exactly when the last one was rate limited, and the original error exactly
\* when it was not
C10_FailureKindFollowsLastAttempt ==
    r_pc = "raised" =>
        /\ Len(history) = max_retries
        /\ AllKinds(ErrorKinds)
        /\ outcome.kind = "raised_max_retries"
               <=> history[max_retries].kind = "rate_limit"
        /\ outcome.kind = "raised_original"
               <=> history[max_retries].kind = "other"

C10_Witness ==
    /\ r_pc = "raised"
    /\ outcome.kind = "raised_max_retries"
    /\ \E i \in 1..Len(history) : history[i].kind = "other"

\* C11: a combined chunk whose Model Call fails gives the empty summary and
\* nothing else: the loop goes on to the next combined chunk (to RECOMBINING
\* after the last one), summarize neither returns nor catches anything at that
\* step, and until the iteration is recombined every combined chunk before idx
\* has got its call and the next one is still to be submitted
C11_FailedChunkDoesNotAbort ==
    /\ [](pc = "SUMMARIZING_CHUNKS" =>
             (idx = Len(call_results) + 1 /\ idx <= Len(combined_chunks)))
    /\ [](pc = "RECOMBINING" => Len(call_results) = Len(combined_chunks))
    /\ [][(pc = "SUMMARIZING_CHUNKS" /\ call_results' = Append(call_results, "raised"))
             => /\ summaries' = Append(summaries, <<>>)
                /\ idx' = idx + 1
                /\ pc' = IF idx < Len(combined_chunks)
                         THEN "SUMMARIZING_CHUNKS" ELSE "RECOMBINING"
                /\ UNCHANGED m_vars]_vars

C11_Witness ==
    /\ m_pc = "returned"
    /\ m_caught = "none"
    /\ \E i, j \in 1..Len(call_results) :
           /\ i < j
           /\ call_results[i] = "raised"
           /\ call_results[j] = "returned"
           /\ summaries[j] # <<>>
           /\ m_result = [kind |-> "returned", value |-> Recombined(summaries)]

AllCallsRaised == call_results # <<>> /\ \A i \in 1..Len(call_results) : call_results[i] = "raised"

\* C12: when every chunk call of an iteration failed, the request fails: a
\* summarize that has returned after such an iteration (here the last one)
\* has gone through its failure path
C12_AllFailedRequestFails ==
    (m_pc = "returned" /\ AllCallsRaised) => m_caught # "none"

\* C13: when summarize caught an exception, of the reduction or of the
\* commit, it returned "" and book.summarized_text is what it was before the
\* call
C13_CaughtExceptionLeavesBook ==
    (m_pc = "returned" /\ m_caught # "none") =>
        /\ m_result = [kind |-> "returned", value |-> <<>>]
        /\ book_summarized_text = m_before

\* C14: a request cancelled during an iteration makes no further chunk call
\* and leaves the book and the database as they were; book.summarized_text
\* and the committed column change only to the text of a reduction that has
\* reached DONE
C14_CancelledPersistsNothing ==
    /\ [](book_summarized_text # m_before
             => (pc = "DONE" /\ book_summarized_text = text))
    /\ [](db_summarized_text # m_before
             => (pc = "DONE" /\ db_summarized_text = text))
    /\ []((m_pc = "cancelled" /\ pc = "cancelled")
             => (book_summarized_text = m_before /\ db_summarized_text = m_before))
    /\ [][m_pc = "cancelled" => UNCHANGED <<calls, call_results, summaries,
                                            book_summarized_text,
                                            db_summarized_text>>]_vars

C14_Witness ==
    /\ m_pc = "cancelled"
    /\ pc = "cancelled"
    /\ idx <= Len(combined_chunks)
    /\ \E i \in 1..Len(summaries) : summaries[i] # <<>>
    /\ book_summarized_text = m_before
    /\ db_summarized_text = m_before
    /\ Recombined(summaries) # m_before

\* C15: get_book is cache-first. A call for an id that has a row returns that
\* row and fetches nothing; a call for an id without a row fetches, and with
\* status 200 it returns a row that is then the one row of that id, the only
\* change of the table; with another status it returns nothing and the
\* table is unchanged
C15_GetBookCacheFirst ==
    g_calls > 0 =>
        LET hit == fetch_book_db(g_before, g_last.book_id)
        IN IF hit # {}
           THEN /\ g_last.kind = "returned"
                /\ ~g_last.fetched
                /\ g_last.result = hit
                /\ Cardinality(hit) = 1
                /\ store = g_before
           ELSE /\ g_last.fetched
                /\ g_last.status = 200 =>
                       /\ g_last.kind = "returned"
                       /\ Cardinality(g_last.result) = 1
                       /\ fetch_book_db(store, g_last.book_id) = g_last.result
                       /\ store = g_before \cup g_last.result
                /\ g_last.status # 200 =>
                       /\ g_last.kind = "returned"
                       /\ g_last.result = {}
                       /\ store = g_before

\* C16: a failure of attempt i that is no rate-limit signal is followed by a
\* sleep of 2^i, whatever base_delay is, when attempt i is not the final one;
\* on the final attempt the original error is raised with no sleep after it
C16_OtherFailureDelays ==
    \A i \in 1..Len(history) :
        history[i].kind = "other" =>
            IF i < max_retries
            THEN i <= Len(delays) /\ delays[i] = 2 ^ (i - 1)
            ELSE /\ Len(delays) = i - 1
                 /\ r_pc = "raised"
                 /\ outcome = [kind |-> "raised_original", error |-> i - 1]

C16_Witness ==
    /\ r_pc = "raised"
    /\ base_delay = MaxBaseDelay
    /\ Len(history) = max_retries
    /\ max_retries >= DefaultMaxRetries
    /\ history[1].kind = "rate_limit"
    /\ history[2].kind = "other"
    /\ history[max_retries].kind = "other"
    /\ delays[2] = 2
    /\ Len(delays) = max_retries - 1

\* C17: when at least one chunk call of an iteration returned a summary, the
\* text the iteration ends with costs strictly less than the text it
\* started from
C17_CostDecreases ==
    [][(pc = "RECOMBINING" /\ \E i \in 1..Len(call_results) : call_results[i] = "returned")
          => Len(encode(text')) < Len(encode(text))]_vars

RECURSIVE FlattenParts(_)
FlattenParts(recs) ==
    IF recs = <<>> THEN <<>> ELSE Head(recs).parts \o FlattenParts(Tail(recs))

\* C18: the combined chunks hold the chunks of hybrid_chunking, each once
\* and in order, and the text of every combined chunk costs at most
\* max_tokens unless it is one chunk that is over max_tokens by itself
C18_CombinedWithinBudget ==
    pc \in {"SUMMARIZING_CHUNKS", "RECOMBINING"} =>
        /\ FlattenParts(combined_chunks) = hybrid_chunking(text, max_tokens)
        /\ \A i \in 1..Len(combined_chunks) :
               \/ Len(encode(combined_chunks[i].text)) <= max_tokens
               \/ /\ Len(combined_chunks[i].parts) = 1
                  /\ Len(encode(combined_chunks[i].parts[1])) > max_tokens

\* the non-empty elements of a list, in order
RECURSIVE NonEmpty(_)
NonEmpty(sums) ==
    IF sums = <<>> THEN <<>>
    ELSE (IF Head(sums) = <<>> THEN <<>> ELSE <<Head(sums)>>) \o NonEmpty(Tail(sums))

\* C19: the text an iteration ends with is the non-empty summaries joined by
\* a blank line: an empty summary adds neither text nor separator
C19_EmptySummaryAddsNothing ==
    [][pc = "RECOMBINING" => text' = join(BlankLine, NonEmpty(summaries))]_vars

\* C20: a request moves SIZING -> CHUNKING -> SUMMARIZING_CHUNKS ->
\* RECOMBINING -> SIZING, or SIZING -> DONE; DONE is entered only from
\* SIZING with a text whose cost is within the budget, RECOMBINING only when
\* every combined chunk of the iteration has had its call, returned or raised
C20_StateMachine ==
    [][/\ pc' # pc =>
              <<pc, pc'>> \in {<<"SIZING", "CHUNKING">>, <<"SIZING", "DONE">>,
                               <<"CHUNKING", "SUMMARIZING_CHUNKS">>,
                               <<"SUMMARIZING_CHUNKS", "RECOMBINING">>,
                               <<"RECOMBINING", "SIZING">>}
       /\ (pc' = "DONE" /\ pc # "DONE") =>
              (pc = "SIZING" /\ Len(encode(text)) <= max_tokens /\ text' = text)
       /\ (pc' = "RECOMBINING" /\ pc # "RECOMBINING") =>
              /\ calls' = Len(combined_chunks)
              /\ Len(call_results') = Len(combined_chunks)
              /\ Len(summaries') = Len(combined_chunks)
       /\ (pc = "SUMMARIZING_CHUNKS" /\ pc' = pc) => calls' = calls + 1]_vars

C20_Witness ==
    /\ pc = "DONE"
    /\ calls >= 2
    /\ calls = Len(combined_chunks)
    /\ \E i, j \in 1..Len(call_results) :
           call_results[i] = "raised" /\ call_results[j] = "returned"

\* C21: the call for combined chunk idx puts its summary, empty when the call
\* raised, at position idx of the summaries and leaves the earlier ones in
\* place; the text of the next iteration is the summaries of combined chunks
\* 1, 2, ... in that order with a blank line between them
C21_SummariesInChunkOrder ==
    [][/\ (pc = "SUMMARIZING_CHUNKS" /\ calls' = calls + 1) =>
              /\ Len(summaries) = idx - 1
              /\ Len(summaries') = idx
              /\ SubSeq(summaries', 1, idx - 1) = summaries
              /\ call_results'[idx] = "raised" => summaries'[idx] = <<>>
              /\ combined_chunks' = combined_chunks
       /\ pc = "RECOMBINING" =>
              /\ Len(summaries) = Len(combined_chunks)
              /\ text' = join(BlankLine, summaries)]_vars

C21_Witness ==
    /\ pc = "SIZING"
    /\ calls = 2
    /\ Len(summaries) = 2
    /\ summaries[1] # <<>>
    /\ summaries[2] # <<>>
    /\ summaries[1] # summaries[2]
    /\ text = summaries[1] \o BlankLine \o summaries[2]

\* the units of a list whose cost is over the budget, in order: these are
\* sentences, a paragraph over the budget being cut into sentences
OversizedUnits(units, budget) ==
    LET over == {k \in 1..Len(units) : Len(encode(units[k])) > budget}
        nth(n) == CHOOSE k \in over : Cardinality({j \in over : j <= k}) = n
    IN [n \in 1..Cardinality(over) |-> units[nth(n)]]

\* C22: a sentence that alone costs more than max_tokens is a chunk of its
\* own, whole: a chunk that holds such a sentence holds nothing else and its
\* text is the sentence, and the oversized sentences of the text are those of
\* the chunks, each once and in order
C22_OversizedSentenceOwnChunk ==
    h_pc = "returned" =>
        /\ \A i \in 1..Len(h_chunks) :
               \A k \in 1..Len(h_chunks[i].units) :
                   Len(encode(h_chunks[i].units[k])) > h_max_tokens =>
                       /\ Len(h_chunks[i].units) = 1
                       /\ h_chunks[i].text = h_chunks[i].units[1]
        /\ OversizedUnits(FlattenUnits(h_chunks), h_max_tokens)
               = OversizedUnits(UnitsOf(split(h_text), h_max_tokens), h_max_tokens)

C22_Witness ==
    /\ h_pc = "returned"
    /\ \E i \in 2..(Len(h_chunks) - 1) :
           /\ Len(h_chunks[i].units) = 1
           /\ Len(encode(h_chunks[i].text)) > h_max_tokens
           /\ h_chunks[i - 1].units # <<>>
           /\ h_chunks[i + 1].units # <<>>
           /\ Len(encode(h_chunks[i + 1].text)) <= h_max_tokens

\* for each packable unit of a text, in order: whether it is a sentence of an
\* oversized paragraph or a whole paragraph, and the number of its paragraph
RECURSIVE UnitKindsFrom(_, _, _)
UnitKindsFrom(paragraphs, budget, n) ==
    IF paragraphs = <<>> THEN <<>>
    ELSE LET p == strip(Head(paragraphs))
             sentences == sent_tokenize(p)
         IN (IF Len(encode(p)) > budget
             THEN [i \in 1..Len(sentences) |-> [kind |-> "sentence", paragraph |-> n]]
             ELSE <<[kind |-> "paragraph", paragraph |-> n]>>)
                \o UnitKindsFrom(Tail(paragraphs), budget, n + 1)

\* the number of units in the chunks before chunk i
RECURSIVE UnitsBefore(_, _)
UnitsBefore(recs, i) ==
    IF i <= 1 THEN 0 ELSE UnitsBefore(recs, i - 1) + Len(recs[i - 1].units)

\* C23: a chunk of two or more sentences of one oversized paragraph is the
\* sentences joined by a single space, a chunk of two or more whole
\* paragraphs is the paragraphs joined by a blank line, wherever the chunk is
\* in the list and whatever unit follows it
C23_SeparatorFollowsUnitKind ==
    h_pc = "returned" =>
        LET kinds == UnitKindsFrom(split(h_text), h_max_tokens, 1)
        IN \A i \in 1..Len(h_chunks) :
               LET units == h_chunks[i].units
                   at(k) == kinds[UnitsBefore(h_chunks, i) + k]
               IN Len(units) >= 2 =>
                      /\ (\A k \in 1..Len(units) :
                              /\ at(k).kind = "sentence"
                              /\ at(k).paragraph = at(1).paragraph)
                             => h_chunks[i].text = join(Space, units)
                      /\ (\A k \in 1..Len(units) : at(k).kind = "paragraph")
                             => h_chunks[i].text = join(BlankLine, units)

\* C24: for a non-empty text, every chunk hybrid_chunking returns holds at
\* least one unit and is not the empty string
C24_NoEmptyChunk ==
    (h_pc = "returned" /\ h_text # <<>>) =>
        \A i \in 1..Len(h_chunks) :
            h_chunks[i].units # <<>> /\ h_chunks[i].text # <<>>

\* C25: in an iteration every combined chunk gets one call, in order, and
\* the content of every call that has been made is not the empty string
C25_OneCallPerChunkNeverEmpty ==
    /\ calls = Len(call_results)
    /\ calls <= Len(combined_chunks)
    /\ pc = "SUMMARIZING_CHUNKS" => idx = calls + 1
    /\ pc = "RECOMBINING" => calls = Len(combined_chunks)
    /\ \A i \in 1..calls : combined_chunks[i].text # <<>>

\* C26: when refresh is false and the book already holds a non-empty summary,
\* summarize returns the stored text, runs no reduction, makes no model call
\* and commits nothing; analyze then makes exactly one model call, whose user
\* prompt opens with the sentence of its analysis_type, the generic sentence
\* for a type it does not know, and carries the stored text
C26_CachedSummaryOneAnalysisCall ==
    (a_pc # "idle" /\ ~refresh /\ ~Falsy(m_before)) =>
        /\ pc = "idle" /\ ~called /\ ~chunked /\ calls = 0
        /\ m_pc \in {"start", "returned"}
        /\ m_caught = "none"
        /\ book_summarized_text = m_before
        /\ db_summarized_text = m_before
        /\ m_pc = "returned" => m_result = [kind |-> "returned", value |-> m_before]
        /\ a_pc \in {"summarizing", "returned", "raised"}
        /\ a_calls = IF a_pc = "summarizing" THEN 0 ELSE 1
        /\ a_pc # "summarizing" =>
            /\ m_pc = "returned"
            /\ a_prompt.text = m_before
            /\ a_prompt.separator = BlankLine
            /\ analysis_type = "summary" =>
                a_prompt.instruction = "Provide a concise summary of the following text:"
            /\ analysis_type = "sentiment" =>
                a_prompt.instruction = "Analyze the sentiment of the following text:"
            /\ analysis_type = "key_characters" =>
                a_prompt.instruction = "Identify the key characters in the following text:"
            /\ analysis_type \notin {"summary", "sentiment", "key_characters"} =>
                a_prompt.instruction = "Analyze the following text:"

C26_Witness ==
    /\ a_pc = "returned"
    /\ analysis_type = "custom"
    /\ ~Falsy(m_before)
    /\ ~refresh
    /\ ~called
    /\ a_calls = 1
    /\ a_prompt.instruction = "Analyze the following text:"
    /\ a_prompt.text = m_before

\* the requests of client c accepted at a time t with from <= t < from + Window
AcceptedInWindow(c, from) ==
    {i \in 1..Len(accepted[c]) :
        from <= accepted[c][i] /\ accepted[c][i] < from + Window}

\* C27: whatever requests came, no client has more than REQUEST_PER_MINUTE
\* requests accepted within a window of 60 seconds; a request answered with
\* 429 adds nothing to its client's list of timestamps; and a request leaves
\* the lists of the other clients as they were
C27_RateLimitPerClient ==
    /\ [](\A c \in Clients : \A from \in 0..clock :
            Cardinality(AcceptedInWindow(c, from)) <= REQUEST_PER_MINUTE)
    /\ [][l_requests' = l_requests + 1 =>
            LET c == l_last'.client_ip
                before == rate_limit_store[c]
                after == rate_limit_store'[c]
            IN  /\ \A d \in Clients \ {c} :
                    rate_limit_store'[d] = rate_limit_store[d]
                /\ l_last'.kind = "rejected" =>
                    /\ accepted' = accepted
                    /\ Len(after) <= Len(before)
                    /\ \A t \in 0..clock :
                        Len(SelectSeq(after, LAMBDA x : x = t))
                            <= Len(SelectSeq(before, LAMBDA x : x = t))
                /\ l_last'.kind = "accepted" =>
                    /\ after # <<>>
                    /\ after[Len(after)] = l_last'.now
                    /\ Len(after) <= REQUEST_PER_MINUTE]_vars

C27_Witness ==
    /\ l_last.kind = "rejected"
    /\ Len(accepted[l_last.client_ip]) > REQUEST_PER_MINUTE
    /\ Len(rate_limit_store[l_last.client_ip]) = REQUEST_PER_MINUTE
    /\ \E d \in Clients \ {l_last.client_ip} : rate_limit_store[d] # <<>>

=============================================================================
